---- MODULE Spec2Model ----
(***************************************************************************)
(* Model of the per-port sampling engine (monitor.rs), its bounded history *)
(* (PortHistory), the std::sync::RwLock that guards each history, and the  *)
(* renderer loop (app.rs, ui.rs, handler.rs) that reads the histories.     *)
(*                                                                         *)
(* Time is measured in microseconds.  Each engine thread reads its own     *)
(* monotonic clock (Instant::now()); engines never compare instants with   *)
(* one another, so every thread carries its own clock value.               *)
(* Rates are f64 in the code; here they are exact rationals <<n, d>> in    *)
(* lowest terms (bytes per second), compared by cross multiplication.      *)
(***************************************************************************)
EXTENDS Integers, Sequences, FiniteSets, TLC

\* ------------------------------------------------------------------ bounds
\* push_point calls followed on one history (past its capacity).
MaxPushes == 203
\* Loop iterations one engine performs when it is the only engine.
MaxTicks == 3
\* Loop iterations each engine performs when several engines run.
MaxTicksMulti == 1
\* Bytes of counter-file content handed to read_u64.
MaxLen == 4

\* ------------------------------------------------------- program constants
\* PortHistory capacity (monitor.rs: `if self.rx_data.len() >= 200`).
Capacity == 200
\* Duration::from_micros(1000)
loop_interval == 1000
\* Duration::from_millis(50), in microseconds
commit_interval == 50000
\* delta_time > 0.000_001 seconds, in microseconds
EpsilonMicros == 1
\* Duration::as_secs_f64: microseconds per second
MicrosPerSec == 1000000
\* A logical time axis advanced by a tenth of a second.
LogicalStep_tenth == 2 * 5
\* A logical time axis that is never advanced.
LogicalStep_stuck == 0 * 5
\* logical_time_axis += 0.05, in hundredths of a second
LogicalStep == 5

\* The ports App::try_new selected: one history and one engine thread each.
Ports == {1, 2}
\* PortDescriptor.port_type of each selected port.
PortTypeOf(p) == IF p = 1 THEN "Rdma" ELSE "Ethernet"

\* The raw counter values a sysfs read returns in the model.
Counters == {0, 1, 2}
\* io::Result<u64> of FastSysfsReader::read_u64
ReadResults == {[ok |-> FALSE, val |-> 0]} \cup {[ok |-> TRUE, val |-> v] : v \in Counters}
\* Time one stretch of code may take: none to speak of, one sampling period,
\* or a stall of a whole commit window.
Delays == {0, loop_interval, commit_interval}
\* What thread::sleep may oversleep its deadline by: nothing, or half a period.
OverSleeps == {0, 500}

VARIABLES
    pc,                 \* engine thread position
    clock,              \* engine thread's current Instant
    prev_rx, prev_tx, initialized,
    next_tick, now, last_commit_time, logical_time_axis,
    window_max_rx, window_max_tx, prev_sample_time,
    curr_rx_res, curr_tx_res,   \* the iteration's read results
    ticks,              \* loop iterations started (bounded by TickBudget)
    branch,             \* history variable: the branch the iteration took
    seen_rx, seen_tx,   \* history variables: the rates computed since the last commit, in order
    check_time,         \* history variable: the Instant::now() read at the end of the last iteration
    overran,            \* history variable: some iteration found its deadline passed
    rx_file_exists, tx_file_exists,     \* sysfs: the counter files of each port
    rx_file_bytes,      \* sysfs: the bytes of each port's rx counter file
    rx_data, tx_data,   \* PortHistory queues, oldest first
    pushed_rx, pushed_tx,       \* history variables: every point ever pushed
    lock,               \* RwLock state of each history
    histories,          \* App.histories: the ports selected at start-up
    ui_pc, ui_i, view_mode, should_quit

localVars == <<prev_rx, prev_tx, initialized, next_tick, now,
               last_commit_time, logical_time_axis, window_max_rx,
               window_max_tx, prev_sample_time, curr_rx_res, curr_tx_res>>
ghostVars == <<ticks, branch, seen_rx, seen_tx, check_time, overran>>
envVars == <<rx_file_exists, tx_file_exists, rx_file_bytes>>
engineVars == <<pc, clock, localVars, ghostVars, envVars>>
histVars == <<rx_data, tx_data, pushed_rx, pushed_tx>>
uiVars == <<histories, ui_pc, ui_i, view_mode, should_quit>>
vars == <<engineVars, histVars, lock, uiVars>>

\* ------------------------------------------------------------ rate values
RECURSIVE Gcd(_, _)
Gcd(a, b) == IF b = 0 THEN a ELSE Gcd(b, a % b)

ZeroRate == <<0, 1>>
\* count / (micros as seconds), as a fraction in lowest terms.  An f64
\* division by 0.0 does not trap: it gives an infinity, or NaN for 0.0 / 0.0,
\* kept here as <<count, 0>> (RateGT then orders it as f64 does: an infinity
\* is above every finite rate and NaN is above nothing).
MkRate(count, micros) ==
    IF micros = 0 THEN <<count, 0>>
    ELSE LET n == count * MicrosPerSec
             g == Gcd(n, micros)
         IN  <<n \div g, micros \div g>>
RateGT(a, b) == a[1] * b[2] > b[1] * a[2]

\* ------------------------------------------------------ FastSysfsReader
\* buffer: [u8; 64]
BufferSize == 64
\* The width of u64, scaled: the model's u64 has 8 bits (256 stands for 2^64),
\* so that wrapping_mul / wrapping_add wrap within the 32-bit integers of TLC.
U64Bits == 8
U64Modulus == 2 ^ U64Bits

\* Bytes a counter file may hold: the digits '0' '2' '5' '6', the terminators
\* newline, NUL and space, and the other bytes 'x' and '-'.
Bytes == {48, 50, 53, 54, 10, 0, 32, 120, 45}
Contents == UNION {[1..n -> Bytes] : n \in 0..MaxLen}

\* b >= b'0' && b <= b'9'
IsDigit(b) == b >= 48 /\ b <= 57
\* b == b'\n' || b == 0 || b == b' '
IsTerminator(b) == b = 10 \/ b = 0 \/ b = 32

\* io::Result<u64>: Ok(num), or Err of some io::ErrorKind.
Ok(num) == [ok |-> TRUE, val |-> num, err |-> "none"]
Err(kind) == [ok |-> FALSE, val |-> 0, err |-> kind]

\* The loop `for &b in &self.buffer[..n]`, from index i with num accumulated.
RECURSIVE ParseFrom(_, _, _)
ParseFrom(buf, i, num) ==
    IF i > Len(buf) THEN Ok(num)
    ELSE IF IsDigit(buf[i])
         THEN ParseFrom(buf, i + 1,
                        (((num * 10) % U64Modulus) + (buf[i] - 48)) % U64Modulus)
    ELSE IF IsTerminator(buf[i]) THEN Ok(num)
    ELSE Err("InvalidData")

\* FastSysfsReader::read_u64 on a file holding `bytes`; io_ok tells whether
\* seek and read succeed (`?` returns their error).
read_u64(io_ok, bytes) ==
    IF ~io_ok THEN Err("Io")
    ELSE LET n == IF Len(bytes) < BufferSize THEN Len(bytes) ELSE BufferSize
         IN  IF n = 0 THEN Err("UnexpectedEof")
             ELSE ParseFrom(SubSeq(bytes, 1, n), 1, 0)

\* --------------------------------------------------------- PortHistory
\* PortHistory::new: two empty queues.
NewHistory == [rx_data |-> <<>>, tx_data |-> <<>>]

\* push_point without the capacity test: nothing is ever evicted.
push_point_no_evict(h, time, rx, tx) ==
    [rx_data |-> Append(h.rx_data, <<time, rx>>),
     tx_data |-> Append(h.tx_data, <<time, tx>>)]

\* push_point evicting with pop_back in place of pop_front: at capacity the
\* newest entry is dropped and the oldest stays.
push_point_pop_back(h, time, rx, tx) ==
    LET full == Len(h.rx_data) >= Capacity
        rxq  == IF full /\ h.rx_data # <<>>
                THEN SubSeq(h.rx_data, 1, Len(h.rx_data) - 1) ELSE h.rx_data
        txq  == IF full /\ h.tx_data # <<>>
                THEN SubSeq(h.tx_data, 1, Len(h.tx_data) - 1) ELSE h.tx_data
    IN  [rx_data |-> Append(rxq, <<time, rx>>),
         tx_data |-> Append(txq, <<time, tx>>)]

\* push_point evicting from rx_data only.
push_point_rx_evict_only(h, time, rx, tx) ==
    LET full == Len(h.rx_data) >= Capacity
        rxq  == IF full /\ h.rx_data # <<>> THEN Tail(h.rx_data) ELSE h.rx_data
    IN  [rx_data |-> Append(rxq, <<time, rx>>),
         tx_data |-> Append(h.tx_data, <<time, tx>>)]

\* PortHistory::push_point: when rx_data is at capacity pop the front of both
\* queues (pop_front on an empty queue does nothing), then append to both.
push_point(h, time, rx, tx) ==
    LET full == Len(h.rx_data) >= Capacity
        rxq  == IF full /\ h.rx_data # <<>> THEN Tail(h.rx_data) ELSE h.rx_data
        txq  == IF full /\ h.tx_data # <<>> THEN Tail(h.tx_data) ELSE h.tx_data
    IN  [rx_data |-> Append(rxq, <<time, rx>>),
         tx_data |-> Append(txq, <<time, tx>>)]

\* ------------------------------------------------------ sampling engine
NoResult == [ok |-> FALSE, val |-> 0]

\* The pattern testing the rx result only; a failed tx read then counts as 0.
BothOk_rx_only(r1, r2) == r1.ok

\* if let (Ok(rx), Ok(tx)) = (..)
BothOk(r1, r2) == r1.ok /\ r2.ok

\* The wraparound test looking at the rx counter only.
NoWrap_rx_only(p, r1, r2) == r1.val >= prev_rx[p]

\* curr_rx >= prev_rx && curr_tx >= prev_tx
NoWrap(p, r1, r2) == r1.val >= prev_rx[p] /\ r2.val >= prev_tx[p]

\* The test letting a zero elapsed time through.
DeltaOk_zero_too(delta_time) == delta_time >= 0

\* delta_time > 0.000_001
DeltaOk(delta_time) == delta_time > EpsilonMicros

\* (curr - prev) as f64 / delta_time
Speed(p, curr, prev, delta_time) == MkRate(curr - prev, delta_time)

\* The window keeping the last rate in place of the largest.
PeakHold_last(window_max, speed) == speed

\* if speed > window_max { window_max = speed }
PeakHold(window_max, speed) == IF RateGT(speed, window_max) THEN speed ELSE window_max

\* A commit on every iteration.
CommitDue_always(p, t) == TRUE

\* now.duration_since(last_commit_time) >= commit_interval
CommitDue(p, t) == t - last_commit_time[p] >= commit_interval

\* The deadline taken from the current time: "now plus interval".
TickDeadline_from_now(deadline, t) == t + loop_interval

\* next_tick += loop_interval: the new deadline from the old one; the current
\* time t plays no part.
TickDeadline(deadline, t) == deadline + loop_interval

\* An overrun that keeps the missed deadline.
OverrunDeadline_backlog(deadline, t) == deadline

\* next_tick = Instant::now(): the deadline of an iteration that overran.
OverrunDeadline(deadline, t) == t

\* A thread that gives up on a failed read (`read_u64()?` or unwrap).
AfterTick_exit_on_error(p, r1, r2, t) ==
    IF ~BothOk(r1, r2) THEN "terminated"
    ELSE IF CommitDue(p, t) THEN "write" ELSE "sleep"

\* Where the iteration goes after the computation, whatever the reads gave:
\* into the commit when it is due, else to the end-of-iteration sleep.
AfterTick(p, r1, r2, t) == IF CommitDue(p, t) THEN "write" ELSE "sleep"

\* The loop iterations the model follows for each engine.
TickBudget == IF Cardinality(histories) > 1 THEN MaxTicksMulti ELSE MaxTicks

\* The process is alive until App::run returns and main exits.
ProcessAlive == ui_pc # "exited"

\* An open that never fails.
OpenOk_always(exists) == TRUE

\* FastSysfsReader::new(path): File::open succeeds on an existing file.
OpenOk(exists) == exists

\* thread::spawn closure up to the loop: build the paths, open both readers
\* (either open failing ends the thread), set the state, pre-read a baseline.
EngineStart(p) ==
    /\ ProcessAlive
    /\ pc[p] = "spawn"
    /\ IF ~(OpenOk(rx_file_exists[p]) /\ OpenOk(tx_file_exists[p]))
       THEN /\ pc' = [pc EXCEPT ![p] = "terminated"]
            /\ UNCHANGED <<prev_rx, prev_tx, initialized, clock, branch,
                           curr_rx_res, curr_tx_res>>
       ELSE \E r1, r2 \in ReadResults, d \in Delays :
            /\ pc' = [pc EXCEPT ![p] = "loop"]
            /\ prev_rx' = [prev_rx EXCEPT ![p] = IF BothOk(r1, r2) THEN r1.val ELSE 0]
            /\ prev_tx' = [prev_tx EXCEPT ![p] = IF BothOk(r1, r2) THEN r2.val ELSE 0]
            /\ initialized' = [initialized EXCEPT ![p] = BothOk(r1, r2)]
            /\ clock' = [clock EXCEPT ![p] = @ + d]
            /\ branch' = [branch EXCEPT ![p] = IF BothOk(r1, r2) THEN "baseline" ELSE "failed"]
            /\ curr_rx_res' = [curr_rx_res EXCEPT ![p] = r1]
            /\ curr_tx_res' = [curr_tx_res EXCEPT ![p] = r2]
    /\ UNCHANGED <<next_tick, now, last_commit_time, logical_time_axis,
                   window_max_rx, window_max_tx, prev_sample_time,
                   ticks, seen_rx, seen_tx, check_time, overran>>
    /\ UNCHANGED <<envVars, histVars, lock, uiVars>>

\* The iteration without the `if initialized` test: the first successful
\* read is differenced against the zero placeholders.
BranchOf_no_baseline(p, r1, r2, delta_time) ==
    IF ~BothOk(r1, r2) THEN "failed"
    ELSE IF ~DeltaOk(delta_time) THEN "degenerate"
    ELSE IF ~NoWrap(p, r1, r2) THEN "wrap"
    ELSE "rate"

\* The branch of the iteration's `if initialized { .. } else { .. }`.
BranchOf(p, r1, r2, delta_time) ==
    IF ~BothOk(r1, r2) THEN "failed"
    ELSE IF ~initialized[p] THEN "baseline"
    ELSE IF ~DeltaOk(delta_time) THEN "degenerate"
    ELSE IF ~NoWrap(p, r1, r2) THEN "wrap"
    ELSE "rate"

\* One loop iteration from `next_tick += loop_interval` to the commit test.
EngineTick(p) ==
    /\ ProcessAlive
    /\ pc[p] = "loop"
    /\ ticks[p] < TickBudget
    /\ \E r1, r2 \in ReadResults :
         LET t          == clock[p]
             delta_time == t - prev_sample_time[p]
             both       == BothOk(r1, r2)
             rate       == BranchOf(p, r1, r2, delta_time) = "rate"
             rx_speed   == Speed(p, r1.val, prev_rx[p], delta_time)
             tx_speed   == Speed(p, r2.val, prev_tx[p], delta_time)
         IN  /\ next_tick' = [next_tick EXCEPT ![p] = TickDeadline(@, t)]
             /\ now' = [now EXCEPT ![p] = t]
             /\ curr_rx_res' = [curr_rx_res EXCEPT ![p] = r1]
             /\ curr_tx_res' = [curr_tx_res EXCEPT ![p] = r2]
             /\ window_max_rx' = [window_max_rx EXCEPT ![p] =
                    IF rate THEN PeakHold(@, rx_speed) ELSE @]
             /\ window_max_tx' = [window_max_tx EXCEPT ![p] =
                    IF rate THEN PeakHold(@, tx_speed) ELSE @]
             /\ prev_rx' = [prev_rx EXCEPT ![p] = IF both THEN r1.val ELSE @]
             /\ prev_tx' = [prev_tx EXCEPT ![p] = IF both THEN r2.val ELSE @]
             /\ initialized' = [initialized EXCEPT ![p] = @ \/ both]
             /\ prev_sample_time' = [prev_sample_time EXCEPT ![p] = t]
             /\ pc' = [pc EXCEPT ![p] = AfterTick(p, r1, r2, t)]
             /\ branch' = [branch EXCEPT ![p] = BranchOf(p, r1, r2, delta_time)]
             /\ seen_rx' = [seen_rx EXCEPT ![p] = IF rate THEN Append(@, rx_speed) ELSE @]
             /\ seen_tx' = [seen_tx EXCEPT ![p] = IF rate THEN Append(@, tx_speed) ELSE @]
    /\ ticks' = [ticks EXCEPT ![p] = @ + 1]
    /\ UNCHANGED <<clock, last_commit_time, logical_time_axis, check_time, overran>>
    /\ UNCHANGED <<envVars, histVars, lock, uiVars>>

\* history.write(): std::sync::RwLock::write blocks the calling thread until
\* neither a reader nor a writer holds the lock.  It returns Err only for a
\* poisoned lock, i.e. after a writer panicked holding it; the engine is the
\* only writer and push_point does not panic, so the guard is always Ok.
EngineWrite(p) ==
    /\ ProcessAlive
    /\ pc[p] = "write"
    /\ IF lock[p] = "free"
       THEN /\ lock' = [lock EXCEPT ![p] = "write"]
            /\ pc' = [pc EXCEPT ![p] = "push"]
       ELSE /\ pc' = [pc EXCEPT ![p] = "wait_write"]
            /\ UNCHANGED lock
    /\ UNCHANGED <<clock, localVars, ghostVars, envVars, histVars, uiVars>>

\* The parked writer is woken once the lock is released.
EngineWriteWake(p) ==
    /\ ProcessAlive
    /\ pc[p] = "wait_write"
    /\ lock[p] = "free"
    /\ lock' = [lock EXCEPT ![p] = "write"]
    /\ pc' = [pc EXCEPT ![p] = "push"]
    /\ UNCHANGED <<clock, localVars, ghostVars, envVars, histVars, uiVars>>

\* With the write guard: push_point, drop the guard, reset the window state.
EnginePush(p) ==
    /\ ProcessAlive
    /\ pc[p] = "push"
    /\ LET h == push_point([rx_data |-> rx_data[p], tx_data |-> tx_data[p]],
                           logical_time_axis[p], window_max_rx[p], window_max_tx[p])
       IN  /\ rx_data' = [rx_data EXCEPT ![p] = h.rx_data]
           /\ tx_data' = [tx_data EXCEPT ![p] = h.tx_data]
    /\ pushed_rx' = [pushed_rx EXCEPT ![p] =
                        Append(@, <<logical_time_axis[p], window_max_rx[p]>>)]
    /\ pushed_tx' = [pushed_tx EXCEPT ![p] =
                        Append(@, <<logical_time_axis[p], window_max_tx[p]>>)]
    /\ lock' = [lock EXCEPT ![p] = "free"]
    /\ window_max_rx' = [window_max_rx EXCEPT ![p] = ZeroRate]
    /\ window_max_tx' = [window_max_tx EXCEPT ![p] = ZeroRate]
    /\ last_commit_time' = [last_commit_time EXCEPT ![p] = now[p]]
    /\ logical_time_axis' = [logical_time_axis EXCEPT ![p] = @ + LogicalStep]
    /\ seen_rx' = [seen_rx EXCEPT ![p] = <<>>]
    /\ seen_tx' = [seen_tx EXCEPT ![p] = <<>>]
    /\ pc' = [pc EXCEPT ![p] = "sleep"]
    /\ UNCHANGED <<clock, prev_rx, prev_tx, initialized, next_tick, now,
                   prev_sample_time, curr_rx_res, curr_tx_res, ticks, branch,
                   check_time, overran>>
    /\ UNCHANGED <<envVars, uiVars>>

\* The end of the iteration: sleep to the deadline, or reset an overrun one.
\* `body` is the time the iteration took, `over` what the sleep overslept.
EngineSleep(p) ==
    /\ ProcessAlive
    /\ pc[p] = "sleep"
    /\ \E body \in Delays, over \in OverSleeps :
         LET t == clock[p] + body
         IN  /\ check_time' = [check_time EXCEPT ![p] = t]
             /\ IF next_tick[p] > t
                THEN /\ clock' = [clock EXCEPT ![p] = next_tick[p] + over]
                     /\ UNCHANGED <<next_tick, overran>>
                ELSE /\ clock' = [clock EXCEPT ![p] = t]
                     /\ next_tick' = [next_tick EXCEPT ![p] = OverrunDeadline(@, t)]
                     /\ overran' = [overran EXCEPT ![p] = TRUE]
    /\ curr_rx_res' = [curr_rx_res EXCEPT ![p] = NoResult]
    /\ curr_tx_res' = [curr_tx_res EXCEPT ![p] = NoResult]
    /\ branch' = [branch EXCEPT ![p] = "none"]
    /\ pc' = [pc EXCEPT ![p] = "loop"]
    /\ UNCHANGED <<prev_rx, prev_tx, initialized, now, last_commit_time,
                   logical_time_axis, window_max_rx, window_max_tx,
                   prev_sample_time, ticks, seen_rx, seen_tx>>
    /\ UNCHANGED <<envVars, histVars, lock, uiVars>>

\* -------------------------------------------------------------- renderer
\* tui.draw(|f| ui::render(self, f)): start the pass over app.histories.
UiDraw ==
    /\ ui_pc = "draw"
    /\ ui_pc' = "read"
    /\ ui_i' = 1
    /\ UNCHANGED <<histories, view_mode, should_quit, engineVars, histVars, lock>>

\* A pass that takes the write lock of the history it shows.
UiRead_takes_write ==
    /\ ui_pc = "read"
    /\ IF ui_i \in histories
       THEN /\ lock[ui_i] = "free"
            /\ lock' = [lock EXCEPT ![ui_i] = "write"]
            /\ ui_pc' = "copy"
       ELSE /\ ui_pc' = "select"
            /\ UNCHANGED lock
    /\ UNCHANGED <<histories, ui_i, view_mode, should_quit, engineVars, histVars>>

\* history_lock.read() of port ui_i (blocks while the writer holds the lock);
\* past the last port the pass ends and App::run waits in select!.
UiRead ==
    /\ ui_pc = "read"
    /\ IF ui_i \in histories
       THEN /\ lock[ui_i] = "free"
            /\ lock' = [lock EXCEPT ![ui_i] = "read"]
            /\ ui_pc' = "copy"
       ELSE /\ ui_pc' = "select"
            /\ UNCHANGED lock
    /\ UNCHANGED <<histories, ui_i, view_mode, should_quit, engineVars, histVars>>

\* The head of the body of `if let Ok(history) = history_lock.read()`: the
\* points the view needs are copied out of the history (chart view: both
\* queues cloned into Vecs; table view: the last point).  The guard `history`
\* stays alive.
UiCopy ==
    /\ ui_pc = "copy"
    /\ ui_pc' = "render"
    /\ UNCHANGED <<histories, ui_i, view_mode, should_quit, engineVars, histVars, lock>>

\* A pass that goes on to the next history with the guard still held.
UiRender_keeps_guard ==
    /\ ui_pc = "render"
    /\ ui_i' = ui_i + 1
    /\ ui_pc' = "read"
    /\ UNCHANGED <<histories, view_mode, should_quit, engineVars, histVars, lock>>

\* The rest of the body: axis ranges, datasets, the widget built (its title
\* reads history.name) and f.render_widget; the guard is dropped where the
\* `if let` block ends, after render_widget.
UiRender ==
    /\ ui_pc = "render"
    /\ lock' = [lock EXCEPT ![ui_i] = "free"]
    /\ ui_i' = ui_i + 1
    /\ ui_pc' = "read"
    /\ UNCHANGED <<histories, view_mode, should_quit, engineVars, histVars>>

\* select!: ui_interval.tick()
UiTick ==
    /\ ui_pc = "select"
    /\ ui_pc' = IF should_quit THEN "exited" ELSE "draw"
    /\ UNCHANGED <<histories, ui_i, view_mode, should_quit, engineVars, histVars, lock>>

\* The key classes handle_key_event tells apart: 'q' | Esc, Tab, Up | 'k',
\* Down | 'j', and any other key.
Keys == {"q", "Tab", "Up", "Down", "other"}

\* The fields of App a key can reach, as a record.
AppFields == [should_quit |-> should_quit, view_mode |-> view_mode]

\* App::quit
quit(app) == [app EXCEPT !.should_quit = TRUE]

\* App::toggle_view_mode
toggle_view_mode(app) ==
    [app EXCEPT !.view_mode = IF @ = "Table" THEN "Chart" ELSE "Table"]

\* App::on_up and App::on_down are called by handle_key_event and defined in
\* no file of src/; App has no scroll field.  They are taken as the
\* specification describes scrolling: an offset of the renderer, consumed
\* outside the sampling core, which no modelled field depends on.
on_up(app) == app
on_down(app) == app

\* handle_key_event(key_event, app)
handle_key_event(k, app) ==
    CASE k = "q"    -> quit(app)
      [] k = "Tab"  -> toggle_view_mode(app)
      [] k = "Up"   -> on_up(app)
      [] k = "Down" -> on_down(app)
      [] OTHER      -> app

\* select!: a key event, handle_key_event; then the `while !self.should_quit`
\* test.
UiKey ==
    /\ ui_pc = "select"
    /\ \E k \in Keys :
         LET app == handle_key_event(k, AppFields)
         IN  /\ should_quit' = app.should_quit
             /\ view_mode' = app.view_mode
             /\ ui_pc' = IF app.should_quit THEN "exited" ELSE "draw"
    /\ UNCHANGED <<histories, ui_i, engineVars, histVars, lock>>

\* select!: tokio::signal::ctrl_c -> self.quit()
UiCtrlC ==
    /\ ui_pc = "select"
    /\ should_quit' = TRUE
    /\ ui_pc' = "exited"
    /\ UNCHANGED <<histories, ui_i, view_mode, engineVars, histVars, lock>>

\* ------------------------------------------------------------------ system
\* The state App::try_new leaves for the selected ports `sel`: one empty
\* history and one spawned engine thread per port, Chart view.
InitWith(sel) ==
    /\ histories = sel
    /\ pc = [p \in Ports |-> IF p \in sel THEN "spawn" ELSE "none"]
    /\ clock = [p \in Ports |-> 0]
    /\ prev_rx = [p \in Ports |-> 0]
    /\ prev_tx = [p \in Ports |-> 0]
    /\ initialized = [p \in Ports |-> FALSE]
    /\ next_tick = [p \in Ports |-> 0]
    /\ now = [p \in Ports |-> 0]
    /\ last_commit_time = [p \in Ports |-> 0]
    /\ logical_time_axis = [p \in Ports |-> 0]
    /\ prev_sample_time = [p \in Ports |-> 0]
    /\ ticks = [p \in Ports |-> 0]
    /\ branch = [p \in Ports |-> "none"]
    /\ seen_rx = [p \in Ports |-> <<>>]
    /\ seen_tx = [p \in Ports |-> <<>>]
    /\ check_time = [p \in Ports |-> 0]
    /\ overran = [p \in Ports |-> FALSE]
    /\ curr_rx_res = [p \in Ports |-> NoResult]
    /\ curr_tx_res = [p \in Ports |-> NoResult]
    /\ rx_data = [p \in Ports |-> NewHistory.rx_data]
    /\ tx_data = [p \in Ports |-> NewHistory.tx_data]
    /\ pushed_rx = [p \in Ports |-> <<>>]
    /\ pushed_tx = [p \in Ports |-> <<>>]
    /\ lock = [p \in Ports |-> "free"]
    /\ ui_pc = "draw"
    /\ ui_i = 1
    /\ view_mode = "Chart"
    /\ should_quit = FALSE

Engine(p) ==
    \/ EngineStart(p)
    \/ EngineTick(p)
    \/ EngineWrite(p)
    \/ EngineWriteWake(p)
    \/ EnginePush(p)
    \/ EngineSleep(p)

Renderer == UiDraw \/ UiRead \/ UiCopy \/ UiRender \/ UiTick \/ UiKey \/ UiCtrlC

Next == (\E p \in Ports : Engine(p)) \/ Renderer

\* let mut window_max_rx: f64 = 0.0; let mut window_max_tx: f64 = 0.0;
ZeroWindow ==
    /\ window_max_rx = [p \in Ports |-> ZeroRate]
    /\ window_max_tx = [p \in Ports |-> ZeroRate]

\* The counter files of the ports in `bad` are not all there.
FilesMissing(bad) ==
    /\ rx_file_exists \in [Ports -> BOOLEAN]
    /\ tx_file_exists \in [Ports -> BOOLEAN]
    /\ \A p \in Ports : (p \in bad) <=> ~(rx_file_exists[p] /\ tx_file_exists[p])

\* The engine specifications take a read by its result (ReadResults) and do
\* not follow the bytes behind it.
ContentUntracked == rx_file_bytes = [p \in Ports |-> <<>>]

\* One port selected (--interfaces with one name); its files may be missing.
Init ==
    /\ InitWith({1}) /\ ZeroWindow /\ ContentUntracked
    /\ \E bad \in SUBSET {1} : FilesMissing(bad)
Spec == Init /\ [][Next]_vars

\* Every discovered port selected (--all); one port's files are missing.
InitPorts ==
    /\ InitWith(Ports) /\ ZeroWindow /\ ContentUntracked
    /\ \E b \in Ports : FilesMissing({b})
SpecPorts == InitPorts /\ [][Next]_vars

\* The scheduling the threads rely on: the OS runs every runnable engine
\* thread; a writer parked in RwLock::write gets the lock once it is free
\* often enough (the lock does not starve a waiting writer); a draw pass that
\* holds a read guard goes on to drop it; a draw pass waiting in
\* RwLock::read gets the lock once it is free often enough (the writer holds
\* it for one push_point in every commit interval).
Fairness ==
    /\ \A p \in Ports :
          /\ WF_vars(EngineStart(p) \/ EngineTick(p) \/ EngineWrite(p)
                        \/ EnginePush(p) \/ EngineSleep(p))
          /\ SF_vars(EngineWriteWake(p))
    /\ WF_vars(UiCopy \/ UiRender)
    /\ SF_vars(UiRead)

\* Both ports selected; the device of port 2 is gone (neither file is there).
InitLive ==
    /\ InitWith(Ports) /\ ZeroWindow /\ ContentUntracked
    /\ rx_file_exists = [p \in Ports |-> p = 1]
    /\ tx_file_exists = [p \in Ports |-> p = 1]
SpecLive == InitLive /\ [][Next]_vars /\ Fairness

\* ------------------------------------------------- PortHistory alone
\* The peaks a commit may carry in SpecHistory.
HistoryRates == {ZeroRate, <<20, 1>>, <<1000, 1>>}

\* One more commit into the history of port p: push_point with the engine's
\* logical time and window peaks, as in the commit block of the loop.
PushPointCall(p) ==
    /\ Len(pushed_rx[p]) < MaxPushes
    /\ LET h == push_point([rx_data |-> rx_data[p], tx_data |-> tx_data[p]],
                           logical_time_axis[p], window_max_rx[p], window_max_tx[p])
       IN  /\ rx_data' = [rx_data EXCEPT ![p] = h.rx_data]
           /\ tx_data' = [tx_data EXCEPT ![p] = h.tx_data]
    /\ pushed_rx' = [pushed_rx EXCEPT ![p] =
                        Append(@, <<logical_time_axis[p], window_max_rx[p]>>)]
    /\ pushed_tx' = [pushed_tx EXCEPT ![p] =
                        Append(@, <<logical_time_axis[p], window_max_tx[p]>>)]
    /\ logical_time_axis' = [logical_time_axis EXCEPT ![p] = @ + LogicalStep]
    /\ UNCHANGED <<pc, clock, prev_rx, prev_tx, initialized, next_tick, now,
                   last_commit_time, window_max_rx, window_max_tx,
                   prev_sample_time, curr_rx_res, curr_tx_res,
                   ghostVars, envVars, lock, uiVars>>

\* A new, empty history and the peaks that are pushed into it.
InitHistory ==
    /\ InitWith({1}) /\ ContentUntracked
    /\ FilesMissing({})
    /\ \E rx, tx \in HistoryRates :
         /\ window_max_rx = [p \in Ports |-> rx]
         /\ window_max_tx = [p \in Ports |-> tx]

NextHistory == PushPointCall(1)

SpecHistory == InitHistory /\ [][NextHistory]_vars

\* ------------------------------------------------ FastSysfsReader alone
\* rx_reader.read_u64() of port p, once, on the bytes its file holds; the
\* result is what curr_rx_res is bound to.
ReadCall(p) ==
    /\ curr_rx_res[p] = NoResult
    /\ \E io_ok \in BOOLEAN :
         curr_rx_res' = [curr_rx_res EXCEPT ![p] = read_u64(io_ok, rx_file_bytes[p])]
    /\ UNCHANGED <<pc, clock, prev_rx, prev_tx, initialized, next_tick, now,
                   last_commit_time, logical_time_axis, window_max_rx,
                   window_max_tx, prev_sample_time, curr_tx_res,
                   ghostVars, envVars, histVars, lock, uiVars>>

\* Port 1 selected, its files there, the rx file holding any of Contents.
InitParse ==
    /\ InitWith({1}) /\ ZeroWindow /\ FilesMissing({})
    /\ \E c \in Contents : rx_file_bytes = [p \in Ports |-> IF p = 1 THEN c ELSE <<>>]

NextParse == ReadCall(1)

SpecParse == InitParse /\ [][NextParse]_vars

\* ================================================================ claims
\* Steps of engine p, recognised from the two states of a step.
StartStep(p) == pc[p] = "spawn" /\ pc'[p] = "loop"
TickStep(p) == pc[p] = "loop" /\ pc'[p] \in {"write", "sleep"}
PushStep(p) == pc[p] = "push" /\ pc'[p] = "sleep"
EngineMoved(p) == pc'[p] # pc[p]

\* The largest rate of a sequence of rates, 0.0 for none.
MaxRate(rates) ==
    IF rates = <<>> THEN ZeroRate
    ELSE LET S == {rates[i] : i \in 1..Len(rates)}
         IN  CHOOSE m \in S : \A r \in S : ~RateGT(r, m)

\* The read results of the step's iteration, after the step.
ReadBothOk(p) == curr_rx_res'[p].ok /\ curr_tx_res'[p].ok
WindowKept(p) ==
    /\ window_max_rx'[p] = window_max_rx[p]
    /\ window_max_tx'[p] = window_max_tx[p]
    /\ seen_rx'[p] = seen_rx[p]
    /\ seen_tx'[p] = seen_tx[p]

\* C1: no engine thread is ever blocked waiting for its history's lock: a
\* commit attempt try-acquires the write lock and goes on when it is taken.
C1_NeverBlocked == \A p \in Ports : pc[p] # "wait_write"

\* C2: a commit attempt that finds the write lock unavailable fails at once
\* and leaves the peak accumulators (and the history) as they were, for the
\* next attempt; only a successful commit resets them.
C2_FailedAttemptKeepsPeaks ==
    [][\A p \in Ports :
         (pc[p] = "write" /\ lock[p] # "free" /\ EngineMoved(p))
            => /\ pc'[p] = "sleep"
               /\ WindowKept(p)
               /\ rx_data'[p] = rx_data[p]
               /\ tx_data'[p] = tx_data[p]]_vars

\* C3: the point a commit appends carries, for each direction on its own, the
\* maximum of the rates computed on the ticks since the previous commit.
C3_PeakHold ==
    [][\A p \in Ports :
         PushStep(p)
            => /\ rx_data'[p] # <<>> /\ tx_data'[p] # <<>>
               /\ rx_data'[p][Len(rx_data'[p])] =
                     <<logical_time_axis[p], MaxRate(seen_rx[p])>>
               /\ tx_data'[p][Len(tx_data'[p])] =
                     <<logical_time_axis[p], MaxRate(seen_tx[p])>>]_vars

\* A commit about to publish a window of three rates whose rx peak is the
\* middle one (neither the first nor the last) and whose tx peak is not.
C3_Witness ==
    \E p \in Ports :
        /\ pc[p] = "push"
        /\ Len(seen_rx[p]) = 3
        /\ RateGT(seen_rx[p][2], seen_rx[p][1])
        /\ RateGT(seen_rx[p][2], seen_rx[p][3])
        /\ RateGT(seen_rx[p][3], ZeroRate)
        /\ window_max_rx[p] = seen_rx[p][2]
        /\ window_max_tx[p] = seen_tx[p][1]
        /\ RateGT(seen_tx[p][1], seen_tx[p][2])

\* C4: a PortHistory never holds more than Capacity points, in rx or in tx.
C4_CapacityBound ==
    \A p \in Ports : Len(rx_data[p]) <= Capacity /\ Len(tx_data[p]) <= Capacity

\* A full history into which more points than its capacity were pushed.
C4_Witness ==
    \E p \in Ports : Len(rx_data[p]) = Capacity /\ Len(pushed_rx[p]) > Capacity + 1

\* The last n elements of a sequence (all of it when it is shorter).
LastN(q, n) ==
    IF Len(q) <= n THEN q ELSE SubSeq(q, Len(q) - n + 1, Len(q))

\* C5: eviction is strict FIFO: the history is always the last
\* min(k, Capacity) of the k points pushed, in push order.
C5_FifoEviction ==
    \A p \in Ports :
        /\ rx_data[p] = LastN(pushed_rx[p], Capacity)
        /\ tx_data[p] = LastN(pushed_tx[p], Capacity)

\* Capacity + 1 points pushed: exactly Capacity remain, the oldest is gone,
\* the second pushed is now the oldest and the newest is last.
C5_Witness ==
    \E p \in Ports :
        /\ Len(pushed_rx[p]) = Capacity + 1
        /\ Len(rx_data[p]) = Capacity
        /\ rx_data[p][1] = pushed_rx[p][2]
        /\ rx_data[p][1] # pushed_rx[p][1]
        /\ rx_data[p][Capacity] = pushed_rx[p][Capacity + 1]

\* C6: on a tick of an initialized engine where a newly read counter is below
\* its stored previous value, no rate is computed and the peaks stay, the
\* stored previous values become the new ones, and the loop goes on.
C6_Wraparound ==
    [][\A p \in Ports :
         ( /\ TickStep(p) /\ initialized[p] /\ ReadBothOk(p)
           /\ \/ curr_rx_res'[p].val < prev_rx[p]
              \/ curr_tx_res'[p].val < prev_tx[p] )
            => /\ WindowKept(p)
               /\ prev_rx'[p] = curr_rx_res'[p].val
               /\ prev_tx'[p] = curr_tx_res'[p].val
               /\ initialized'[p]]_vars

\* A tick that discarded a decreased rx counter while tx grew, with a peak held.
C6_Witness ==
    \E p \in Ports :
        /\ branch[p] = "wrap"
        /\ pc[p] \in {"write", "sleep"}
        /\ seen_rx[p] # <<>>
        /\ RateGT(window_max_tx[p], ZeroRate)
        /\ prev_rx[p] = 0
        /\ prev_tx[p] = 2

\* bytes_per_count of the claim: 4 for an RDMA port, 1 for an Ethernet port.
BytesPerCount(p) == IF PortTypeOf(p) = "Rdma" THEN 4 ELSE 1

\* C7: every computed rate is (new - old) * bytes_per_count / elapsed.
C7_UnitMultiplier ==
    [][\A p \in Ports :
         ( /\ TickStep(p) /\ initialized[p] /\ ReadBothOk(p)
           /\ now'[p] - prev_sample_time[p] > EpsilonMicros
           /\ curr_rx_res'[p].val >= prev_rx[p]
           /\ curr_tx_res'[p].val >= prev_tx[p] )
            => /\ seen_rx'[p] = Append(seen_rx[p],
                     MkRate((curr_rx_res'[p].val - prev_rx[p]) * BytesPerCount(p),
                            now'[p] - prev_sample_time[p]))
               /\ seen_tx'[p] = Append(seen_tx[p],
                     MkRate((curr_tx_res'[p].val - prev_tx[p]) * BytesPerCount(p),
                            now'[p] - prev_sample_time[p]))]_vars

\* C8: on a tick of an initialized engine where a read fails, the stored
\* previous counters and the peaks stay as they were and the engine goes on
\* to the commit test.
C8_ReadFailure ==
    [][\A p \in Ports :
         (TickStep(p) /\ initialized[p] /\ ~ReadBothOk(p))
            => /\ prev_rx'[p] = prev_rx[p]
               /\ prev_tx'[p] = prev_tx[p]
               /\ initialized'[p]
               /\ WindowKept(p)
               /\ pc'[p] = IF now'[p] - last_commit_time[p] >= commit_interval
                           THEN "write" ELSE "sleep"]_vars

\* A failed tick (rx read fine, tx did not) that kept a baseline and a peak
\* and went on to a commit.
C8_Witness ==
    \E p \in Ports :
        /\ branch[p] = "failed"
        /\ initialized[p]
        /\ curr_rx_res[p].ok /\ ~curr_tx_res[p].ok
        /\ curr_rx_res[p].val # prev_rx[p]
        /\ RateGT(window_max_rx[p], ZeroRate)
        /\ pc[p] = "write"

\* C9: the engine becomes initialized exactly on the first attempt (the
\* pre-read or a tick) whose two reads both succeed; that attempt stores the
\* two values as the baseline and computes no rate, and no other step changes
\* the flag.
C9_Initialization ==
    [][\A p \in Ports :
         /\ ((StartStep(p) \/ TickStep(p)) /\ ~initialized[p])
               => /\ initialized'[p] <=> ReadBothOk(p)
                  /\ ReadBothOk(p) => /\ prev_rx'[p] = curr_rx_res'[p].val
                                      /\ prev_tx'[p] = curr_tx_res'[p].val
                  /\ WindowKept(p)
                  /\ seen_rx'[p] = <<>> /\ seen_tx'[p] = <<>>
         /\ initialized'[p] # initialized[p]
               => (StartStep(p) \/ TickStep(p)) /\ ~initialized[p]]_vars

\* An engine whose pre-read and first tick failed, initialized by its second
\* tick with nonzero baselines and no rate computed so far.
C9_Witness ==
    \E p \in Ports :
        /\ branch[p] = "baseline"
        /\ ticks[p] = 2
        /\ initialized[p]
        /\ prev_rx[p] = 2 /\ prev_tx[p] = 1
        /\ seen_rx[p] = <<>>
        /\ window_max_rx[p] = ZeroRate

\* Everything engine p owns: its thread state, its history and its lock.
PortState(p) ==
    <<pc[p], clock[p], prev_rx[p], prev_tx[p], initialized[p], next_tick[p],
      now[p], last_commit_time[p], logical_time_axis[p], window_max_rx[p],
      window_max_tx[p], prev_sample_time[p], curr_rx_res[p], curr_tx_res[p],
      rx_data[p], tx_data[p]>>
FilesThere(p) == rx_file_exists[p] /\ tx_file_exists[p]

\* C10: an engine whose rx or tx counter file cannot be opened terminates at
\* its first step and never appends a point; the steps of an engine change
\* nothing another port owns, and a terminated engine takes no step.
C10_OpenFailure ==
    [][\A p \in Ports :
         /\ (~FilesThere(p) /\ EngineMoved(p))
               => pc[p] = "spawn" /\ pc'[p] = "terminated"
         /\ ~FilesThere(p) => rx_data'[p] = <<>> /\ tx_data'[p] = <<>>
         /\ pc[p] = "terminated" => PortState(p)' = PortState(p)
         /\ \A q \in Ports \ {p} :
               EngineMoved(q) => PortState(p)' = PortState(p) /\ lock'[p] = lock[p]]_vars

\* Port 1 lacks its tx file only and has terminated; port 2 has ticked,
\* computed a rate and committed it.
C10_Witness ==
    /\ rx_file_exists[1] /\ ~tx_file_exists[1]
    /\ pc[1] = "terminated"
    /\ rx_data[1] = <<>>
    /\ Len(rx_data[2]) = 1
    /\ RateGT(rx_data[2][1][2], ZeroRate)

\* An engine thread past its start-up: both readers were opened.
Running(p) == pc[p] \in {"loop", "write", "wait_write", "push", "sleep"}

SleepStep(p) == pc[p] = "sleep" /\ pc'[p] = "loop"

\* C12: every iteration sets its deadline to the previous deadline plus
\* loop_interval, whatever the current time is; so an engine none of whose
\* iterations overran has, after k iterations, the deadline k intervals past
\* its start anchor (instant 0 of its clock).
C12_AbsoluteDeadline ==
    /\ [][\A p \in Ports :
            TickStep(p) => next_tick'[p] = next_tick[p] + loop_interval]_vars
    /\ [](\A p \in Ports :
            (Running(p) /\ ~overran[p]) => next_tick[p] = ticks[p] * loop_interval)
\* Two iterations without an overrun, the thread having woken late from its
\* sleep: it stands at the loop head past the deadline it slept to.
C12_Witness ==
    \E p \in Ports : /\ pc[p] = "loop" /\ ticks[p] >= 2 /\ ~overran[p]
                     /\ clock[p] > next_tick[p]

\* C13: the end of every iteration leaves a deadline that is not before the
\* time read there; a deadline found passed is replaced by the current time
\* and the thread does not sleep, so the periods missed are dropped and the
\* following deadline is a whole period after that time.
C13_OverrunReset ==
    [][\A p \in Ports : SleepStep(p) =>
          /\ next_tick'[p] >= check_time'[p]
          /\ next_tick[p] <= check_time'[p] =>
                /\ next_tick'[p] = check_time'[p]
                /\ clock'[p] = check_time'[p]
                /\ overran'[p]]_vars
\* An iteration stalled past several periods: the deadline now is the time
\* read at its end, beyond the one the period count alone would give.
C13_Witness ==
    \E p \in Ports : /\ pc[p] = "loop" /\ overran[p]
                     /\ next_tick[p] = check_time[p]
                     /\ next_tick[p] > (ticks[p] + 1) * loop_interval

\* C14: a history changes only in the commit of an iteration whose time `now`
\* is at least commit_interval after the last commit (after the thread's
\* start for the first), and that commit moves last_commit_time to `now`: no
\* point before the first interval is over, and consecutive points come from
\* iterations at least commit_interval apart.
C14_CommitInterval ==
    /\ [][\A p \in Ports :
            (rx_data'[p] # rx_data[p] \/ tx_data'[p] # tx_data[p]) =>
                /\ PushStep(p)
                /\ now[p] - last_commit_time[p] >= commit_interval
                /\ last_commit_time'[p] = now[p]]_vars
    /\ [](\A p \in Ports : rx_data[p] # <<>> => now[p] >= commit_interval)
\* Two points in a history.
C14_Witness == \E p \in Ports : Len(rx_data[p]) >= 2 /\ Len(pushed_rx[p]) >= 2
\* The timestamps of a queue grow strictly from each point to the next.
StrictlyTimed(q) == \A i \in 1..(Len(q) - 1) : q[i][1] < q[i + 1][1]

\* C15: in every state the points of each history are in strictly increasing
\* order of timestamp, oldest first, evictions included.
C15_TimeOrdered ==
    \A p \in Ports : StrictlyTimed(rx_data[p]) /\ StrictlyTimed(tx_data[p])
\* A full history that has evicted: its oldest point is no longer the first
\* pushed, and its timestamps run from the oldest kept to the newest pushed.
C15_Witness ==
    \E p \in Ports :
        /\ Len(rx_data[p]) = Capacity
        /\ rx_data[p][1][1] > pushed_rx[p][1][1]
        /\ rx_data[p][Capacity][1] = rx_data[p][1][1] + (Capacity - 1) * LogicalStep

\* C20: in every state the rx and tx queues of a history have the same
\* length and the same timestamp at every index.
C20_AxesAligned ==
    \A p \in Ports :
        /\ Len(rx_data[p]) = Len(tx_data[p])
        /\ \A i \in 1..Len(rx_data[p]) : rx_data[p][i][1] = tx_data[p][i][1]
\* A full history after two evictions, its two queues holding different
\* rates under the same timestamps.
C20_Witness ==
    \E p \in Ports :
        /\ Len(pushed_rx[p]) = Capacity + 2
        /\ Len(rx_data[p]) = Capacity /\ Len(tx_data[p]) = Capacity
        /\ rx_data[p][1][2] # tx_data[p][1][2]
        /\ rx_data[p][1][1] = 2 * LogicalStep /\ tx_data[p][1][1] = 2 * LogicalStep
\* The bytes of port 1's rx file and the result read_u64 gave for them.
Content == rx_file_bytes[1]
Result == curr_rx_res[1]
ReadDone == Result # NoResult /\ Result.err # "Io"

\* The index of the first byte that is no digit (Len + 1 when all are).
FirstStop(c) ==
    IF \A i \in 1..Len(c) : IsDigit(c[i]) THEN Len(c) + 1
    ELSE CHOOSE i \in 1..Len(c) :
            ~IsDigit(c[i]) /\ \A j \in 1..(i - 1) : IsDigit(c[j])
\* 10 to the power k.
RECURSIVE Pow10(_)
Pow10(k) == IF k = 0 THEN 1 ELSE 10 * Pow10(k - 1)
\* The integer the decimal digits c[1..n] denote.
DigitsValue(c, n) ==
    LET RECURSIVE Sum(_)
        Sum(i) == IF i > n THEN 0 ELSE (c[i] - 48) * Pow10(n - i) + Sum(i + 1)
    IN  Sum(1)
\* A run of digits, then the end of the data or a terminator.
DigitsThenStop(c) ==
    /\ FirstStop(c) > 1
    /\ FirstStop(c) <= Len(c) => IsTerminator(c[FirstStop(c)])

\* C16: for content that is a run of digits followed by a terminator or the
\* end of the data, read_u64 returns the integer the digits denote, whatever
\* follows the terminator; when a byte that is neither digit nor terminator
\* comes before the first terminator, read_u64 returns an error.
C16_ParseDigits ==
    ReadDone =>
        /\ DigitsThenStop(Content) =>
              Result.ok /\ Result.val = DigitsValue(Content, FirstStop(Content) - 1)
        /\ (FirstStop(Content) <= Len(Content)
                /\ ~IsTerminator(Content[FirstStop(Content)])) => ~Result.ok

\* C17: read_u64 succeeds exactly on a clean unsigned integer (a non-empty
\* run of digits, then the end or a terminator); all other content, the empty
\* one and one with no digit before its first terminator included, gives an
\* error, and any error sends the engine's iteration down the branch an I/O
\* error sends it down.
C17_CleanIntegerOnly ==
    /\ ReadDone => (Result.ok <=> DigitsThenStop(Content))
    /\ (Result # NoResult /\ ~Result.ok) =>
          \A r2 \in ReadResults, d \in Delays :
              /\ BranchOf(1, Result, r2, d) = BranchOf(1, Err("Io"), r2, d)
              /\ BranchOf(1, r2, Result, d) = BranchOf(1, r2, Err("Io"), d)
\* C18: a failure shows to the renderer only as a history that stops
\* growing: a point is appended only by an engine that has not ended on an
\* open failure, in an iteration whose two reads succeeded; while the reads
\* fail the history keeps its last content.
C18_FailureFreezesHistory ==
    [][\A p \in Ports :
          (rx_data'[p] # rx_data[p] \/ tx_data'[p] # tx_data[p]) =>
              /\ pc[p] # "terminated"
              /\ BothOk(curr_rx_res[p], curr_tx_res[p])]_vars

\* C19: the renderer holds a history's read lock only while it copies the
\* points out: when the rendering work of a port starts (axis ranges,
\* datasets, render_widget) the read lock of that port has been released.
C19_NoRenderUnderLock ==
    (ui_pc = "render" /\ ui_i \in histories) => lock[ui_i] # "read"
\* C21: the elapsed time of a rate runs from the previous successful sample:
\* an iteration of an initialized engine whose reads did not both succeed
\* leaves prev_sample_time as it leaves prev_rx and prev_tx, so the next
\* delta of the counters is divided by the time over which it accrued.
C21_SampleTimeOnSuccess ==
    [][\A p \in Ports :
          (TickStep(p) /\ initialized[p] /\ ~ReadBothOk(p))
             => /\ prev_sample_time'[p] = prev_sample_time[p]
                /\ prev_rx'[p] = prev_rx[p]
                /\ prev_tx'[p] = prev_tx[p]]_vars

\* C22: an iteration computes a rate only when the time since the previous
\* sample is more than a microsecond, and every iteration of an initialized
\* engine whose two reads succeed stores the values read as prev_rx and
\* prev_tx, rate or no rate.
C22_EpsilonAndAdvance ==
    [][\A p \in Ports : TickStep(p) =>
          /\ (seen_rx'[p] # seen_rx[p] \/ seen_tx'[p] # seen_tx[p]
                  \/ branch'[p] = "rate")
                => now'[p] - prev_sample_time[p] > 1
          /\ (initialized[p] /\ ReadBothOk(p))
                => /\ prev_rx'[p] = curr_rx_res'[p].val
                   /\ prev_tx'[p] = curr_tx_res'[p].val]_vars
\* An initialized engine after an iteration that came no time after the
\* previous sample: its reads succeeded with a grown rx counter, no rate was
\* computed and the counter read is the stored one.
C22_Witness ==
    \E p \in Ports :
        /\ pc[p] \in {"write", "sleep"} /\ branch[p] = "degenerate"
        /\ now[p] = prev_sample_time[p] /\ ticks[p] >= 2
        /\ curr_rx_res[p].ok /\ curr_tx_res[p].ok
        /\ prev_rx[p] = curr_rx_res[p].val /\ prev_rx[p] > 0

\* C23: last_commit_time moves only with a point pushed; a commit attempt
\* that finds the write lock taken pushes nothing, leaves last_commit_time,
\* and the engine goes on to its next iteration with the commit still due.
C23_RetryNextTick ==
    [][\A p \in Ports :
          /\ last_commit_time'[p] # last_commit_time[p]
                => pushed_rx'[p] # pushed_rx[p]
          /\ (pc[p] = "write" /\ lock[p] # "free" /\ EngineMoved(p))
                => /\ last_commit_time'[p] = last_commit_time[p]
                   /\ pushed_rx'[p] = pushed_rx[p]
                   /\ pc'[p] = "sleep"
                   /\ CommitDue(p, now'[p])]_vars

\* A step of the UI thread: a draw pass step, the interval tick, a key event
\* or Ctrl-C.
UiStep == ui_pc' # ui_pc

\* The points of port p: the queues and everything ever pushed to them.
HistoryOf(p) == <<rx_data[p], tx_data[p], pushed_rx[p], pushed_tx[p]>>

\* C24: the engine of a port is the only writer of its history.  A step of
\* the UI thread (draw, key event quit / toggle / scroll, Ctrl-C) leaves every
\* history and every engine's state as they are and moves a lock only between
\* free and read-held; the points of a port change only at a push of that
\* port's own engine, which holds the write lock and leaves the other
\* histories and locks alone.
C24_SoleWriter ==
    [][/\ UiStep =>
            /\ UNCHANGED <<engineVars, histVars, histories>>
            /\ \A p \in Ports :
                  lock'[p] # lock[p] => {lock[p], lock'[p]} = {"free", "read"}
       /\ \A p \in Ports :
            HistoryOf(p)' # HistoryOf(p)
               => /\ pc[p] = "push" /\ pc'[p] = "sleep" /\ lock[p] = "write"
                  /\ \A q \in Ports \ {p} :
                        HistoryOf(q)' = HistoryOf(q) /\ lock'[q] = lock[q]]_vars
\* Points were pushed for a port, the user has switched to the table view and
\* the draw pass holds the read lock of that port's history.
C24_Witness ==
    \E p \in Ports :
        /\ Len(pushed_rx[p]) > 0 /\ rx_data[p] = pushed_rx[p]
        /\ view_mode = "Table" /\ lock[p] = "read" /\ ui_i = p

InCommit(p) == pc[p] \in {"write", "wait_write", "push"}

\* The draw pass is under way, at a history's read() or inside its body.
InPass == ui_pc \in {"read", "copy", "render"}

\* C26: engines and renderer cannot deadlock on the history locks.  The
\* renderer holds at most one read lock at a time, that of the history it is
\* showing, and waits for a lock only when it holds none; a write lock is
\* held only by its port's engine inside push_point.  Under fair scheduling
\* every commit attempt completes and every draw pass reaches its end.
C26_NoDeadlock ==
    /\ [](/\ Cardinality({p \in Ports : lock[p] = "read"}) <= 1
          /\ \A p \in Ports :
                /\ lock[p] = "read" => (ui_i = p /\ ui_pc \in {"copy", "render"})
                /\ lock[p] = "write" <=> pc[p] = "push"
          /\ ui_pc = "read" => \A p \in Ports : lock[p] # "read")
    /\ \A p \in Ports :
          InCommit(p) ~> (pc[p] = "sleep" \/ ~ProcessAlive)
    /\ InPass ~> (ui_pc = "select")
\* The engine of port 1 is parked in write() while the draw pass holds the
\* read lock of its history, the lock of the other history being free.
C26_Witness ==
    /\ pc[1] = "wait_write" /\ lock[1] = "read" /\ lock[2] = "free"
    /\ ui_pc = "render" /\ ui_i = 1
====
